---- MODULE Spec2Model ----
(***************************************************************************)
(* A model of pyretic/core/netcore.py: the predicate and policy algebra,   *)
(* the set_network propagation protocol, the mutable and network-derived   *)
(* policies and the query buckets.                                         *)
(*                                                                         *)
(* Every object of the Python program is a node with an identity           *)
(* <<name, index>>.  A call of set_network is run one call frame at a      *)
(* time on an explicit call stack, so that a propagation that never ends   *)
(* is a behaviour of the model and not a failure of its evaluation.        *)
(***************************************************************************)
EXTENDS Integers, Sequences, FiniteSets, Bags, TLC

VARIABLES
    \* every object's _network, and the caches flood, ingress_network and
    \* egress_network derive from it
    netw, egresses, mst,
    \* the policy attribute of the MutablePolicy and NetworkDerivedPolicy
    policy,
    \* the frames of the set_network call in progress, innermost first;
    \* raised: that call ended in an exception
    stack, raised,
    \* the networks policy_from_network was called with; the number of
    \* policies it has built
    pfncalls, ngen,
    \* the packets bucket: its constructor arguments, the counts of its
    \* PredicateWrappedFwdBucket and the vals of its exclusion predicate
    limit, fields, seen, excl,
    \* every FwdBucket's listeners, and the calls the listeners received
    listeners, heard,
    \* the packets handed to packets.eval, in order, each with the listeners
    \* registered at the time and the listeners it was handed to
    evald,
    \* the number of top-level operations, the last one, and what it
    \* returned: a policy's Counter in result, a predicate's bool in verdict
    ops, lastop, result, verdict,
    \* the counts bucket: its running aggregate, the value each evaluation
    \* in flight read from it, the number of evaluations that returned,
    \* the reporting thread, and the values the aggregate has held
    aggregate, loaded, completed, reporter, held,
    \* the evaluation that ran while a set_network call was in progress
    observed,
    \* during one top-level operation: the set_network calls made, the
    \* objects that stored the network, the topology recomputations
    sent, entered, recomputed

netvars == <<netw, egresses, mst, stack, raised>>
dynvars == <<policy, pfncalls, ngen>>
aggvars == <<aggregate, loaded, completed, reporter, held>>
pkvars == <<limit, fields, seen, excl, listeners, heard, evald, aggvars,
            observed>>
ghost == <<sent, entered, recomputed>>
returned == <<result, verdict>>
vars == <<netvars, dynvars, pkvars, ops, lastop, returned, ghost>>

(***************************************************************************)
(* Bounds                                                                  *)
(***************************************************************************)
\* number of top-level operations (set_network calls, policy assignments)
MaxOps == 3
\* number of set_network deliveries followed within one top-level operation
MaxCalls == 70
\* number of packets evaluated
MaxEvals == 3
\* number of policies composed by a sequential built for one evaluation
MaxLen == 2
\* number of callbacks registered with the packets bucket
MaxListeners == 1
\* number of set_network calls the runtime makes on the packets bucket
MaxBucketOps == 2
\* number of callbacks registered with a forwarding bucket
MaxRegistered == 3
\* number of packets handed to the counts bucket
MaxCounted == 3
\* number of times the reporting thread of the counts bucket wakes up
MaxReports == 2
\* number of packets handed to packets.track_eval
MaxTracked == 2

(***************************************************************************)
(* Values                                                                  *)
(***************************************************************************)
\* Python's None, as a network
None == "None"
\* the Network objects the runtime hands to set_network
Nets == {"N1", "N2"}
NetOrNone == Nets \cup {None}

\* an attribute that holds None is <<>>, one that holds v is <<v>>
Nothing == <<>>
Some(v) == <<v>>

\* network.topology.egress_locations(): a set of <<switch, port_no>>
egress_locations(net) ==
    IF net = "N1" THEN {<<2, 1>>, <<3, 1>>} ELSE {<<1, 1>>, <<2, 2>>}

\* Topology.minimum_spanning_tree(network.topology): the switches of the
\* tree and its edges <<switch, neighbour, port_no on switch>>
minimum_spanning_tree(net) ==
    IF net = "N1"
    THEN [nodes |-> {1, 2, 3},
          edges |-> {<<1, 2, 2>>, <<2, 1, 1>>, <<1, 3, 3>>, <<3, 1, 2>>}]
    ELSE [nodes |-> {1, 2},
          edges |-> {<<1, 2, 3>>, <<2, 1, 1>>}]

(***************************************************************************)
(* The objects.  Obj(name) is a statically built object; gen(k) is the     *)
(* k-th policy returned by a NetworkDerivedPolicy's policy_from_network.   *)
(***************************************************************************)
Obj(name) == <<name, 0>>
gen(k) == <<"gen", k>>
\* the objects of the i-th refinement ~match(val) & self.predicate of the
\* packets bucket: the intersect, the negate and the match
x_int(i) == <<"x_int", i>>
x_neg(i) == <<"x_neg", i>>
x_match(i) == <<"x_match", i>>

\* the policy_from_network of the model's NetworkDerivedPolicy is
\* (lambda network: flood()): every call builds a new flood
GenIds == {gen(k) : k \in 1..MaxOps}
\* every packets.eval refines the exclusion predicate at most once
ExclIds == UNION {{x_int(i), x_neg(i), x_match(i)} : i \in 1..MaxEvals}

Node(k, c) == [kind |-> k, kids |-> c]

Static ==
    \* predicates
       (Obj("all_packets") :> Node("all_packets", <<>>))
    @@ (Obj("no_packets")  :> Node("no_packets", <<>>))
    @@ (Obj("ing")    :> Node("ingress_network", <<>>))
    @@ (Obj("egr")    :> Node("egress_network", <<>>))
    @@ (Obj("mF1")    :> Node("match", <<>>))
    @@ (Obj("un")     :> Node("union", <<Obj("ing"), Obj("egr")>>))
    \* difference(un, mF1) is built over (~mF1) & un
    @@ (Obj("d_neg")  :> Node("negate", <<Obj("mF1")>>))
    @@ (Obj("d_int")  :> Node("intersect", <<Obj("d_neg"), Obj("un")>>))
    @@ (Obj("diff")   :> Node("difference", <<Obj("d_int")>>))
    \* difference(mF1, fw_m) is built over (~fw_m) & mF1
    @@ (Obj("d2_neg") :> Node("negate", <<Obj("fw_m")>>))
    @@ (Obj("d2_int") :> Node("intersect", <<Obj("d2_neg"), Obj("mF1")>>))
    @@ (Obj("diff2")  :> Node("difference", <<Obj("d2_int")>>))
    \* union([]), intersect([]), and a union and an intersect of three
    @@ (Obj("un0")    :> Node("union", <<>>))
    @@ (Obj("int0")   :> Node("intersect", <<>>))
    @@ (Obj("un3")    :> Node("union", <<Obj("no_packets"), Obj("fw_m"), Obj("mF1")>>))
    @@ (Obj("int3")   :> Node("intersect", <<Obj("mF1"), Obj("d2_neg"), Obj("all_packets")>>))
    \* policies
    @@ (Obj("drop")   :> Node("drop", <<>>))
    @@ (Obj("pass")   :> Node("passthrough", <<>>))
    @@ (Obj("flood")  :> Node("flood", <<>>))
    @@ (Obj("modX")   :> Node("modify", <<>>))
    @@ (Obj("res")    :> Node("restrict", <<Obj("flood"), Obj("un")>>))
    @@ (Obj("rem")    :> Node("remove", <<Obj("flood"), Obj("diff")>>))
    \* if_(mF1, modX) is built over mF1[modX] | (~mF1)[passthrough]
    @@ (Obj("if_r1")  :> Node("restrict", <<Obj("modX"), Obj("mF1")>>))
    @@ (Obj("if_neg") :> Node("negate", <<Obj("mF1")>>))
    @@ (Obj("if_r2")  :> Node("restrict", <<Obj("pass"), Obj("if_neg")>>))
    @@ (Obj("if_par") :> Node("parallel", <<Obj("if_r1"), Obj("if_r2")>>))
    @@ (Obj("if")     :> Node("if_", <<Obj("if_par")>>))
    \* fwd(2) is built over if_(match(outport=-1), pop('outport')) >> push(outport=2)
    @@ (Obj("fw_m")   :> Node("match", <<>>))
    @@ (Obj("fw_pop") :> Node("pop", <<>>))
    @@ (Obj("fw_r1")  :> Node("restrict", <<Obj("fw_pop"), Obj("fw_m")>>))
    @@ (Obj("fw_neg") :> Node("negate", <<Obj("fw_m")>>))
    @@ (Obj("fw_r2")  :> Node("restrict", <<Obj("pass"), Obj("fw_neg")>>))
    @@ (Obj("fw_par") :> Node("parallel", <<Obj("fw_r1"), Obj("fw_r2")>>))
    @@ (Obj("fw_if")  :> Node("if_", <<Obj("fw_par")>>))
    @@ (Obj("fw_push") :> Node("push", <<>>))
    @@ (Obj("fw_seq") :> Node("sequential", <<Obj("fw_if"), Obj("fw_push")>>))
    @@ (Obj("fw")     :> Node("fwd", <<Obj("fw_seq")>>))
    \* policies that yield a packet twice, a packet three times, and two
    \* and three packets
    @@ (Obj("modA")   :> Node("modify", <<>>))
    @@ (Obj("modB")   :> Node("modify", <<>>))
    @@ (Obj("modY")   :> Node("modify", <<>>))
    @@ (Obj("par0")   :> Node("parallel", <<>>))
    \* move(dstip='srcip'), move(inport='srcip', vlan='outport') and
    \* move(vlan='outport')
    @@ (Obj("mv1")    :> Node("move", <<>>))
    @@ (Obj("mv2")    :> Node("move", <<>>))
    @@ (Obj("mv3")    :> Node("move", <<>>))
    @@ (Obj("twice")  :> Node("parallel", <<Obj("pass"), Obj("pass")>>))
    @@ (Obj("thrice") :> Node("parallel", <<Obj("modY"), Obj("modY"), Obj("modY")>>))
    @@ (Obj("split")  :> Node("parallel", <<Obj("modA"), Obj("modB")>>))
    @@ (Obj("split3") :> Node("parallel", <<Obj("modA"), Obj("modA"), Obj("modB")>>))
    \* if_(match(srcip=1), modify(srcip=3), split)
    @@ (Obj("ife_r1")  :> Node("restrict", <<Obj("modY"), Obj("mF1")>>))
    @@ (Obj("ife_neg") :> Node("negate", <<Obj("mF1")>>))
    @@ (Obj("ife_r2")  :> Node("restrict", <<Obj("split"), Obj("ife_neg")>>))
    @@ (Obj("ife_par") :> Node("parallel", <<Obj("ife_r1"), Obj("ife_r2")>>))
    @@ (Obj("ife")     :> Node("if_", <<Obj("ife_par")>>))
    \* the dynamic policies; their child is the variable policy
    @@ (Obj("nd")     :> Node("NetworkDerivedPolicy", <<>>))
    @@ (Obj("m")      :> Node("MutablePolicy", <<>>))
    @@ (Obj("rec")    :> Node("recurse", <<Obj("m")>>))
    \* packets(limit, fields), its PredicateWrappedFwdBucket and the
    \* FwdBucket of that; the exclusion predicate is the variable excl
    @@ (Obj("pk")     :> Node("packets", <<>>))
    @@ (Obj("pwfb")   :> Node("PredicateWrappedFwdBucket", <<>>))
    @@ (Obj("fwd_bucket") :> Node("FwdBucket", <<>>))
    \* the composite installed into m: it reaches flood and un through
    \* several parents, and m itself through recurse
    @@ (Obj("top")    :> Node("parallel", <<Obj("res"), Obj("rem"), Obj("if"),
                                           Obj("fw"), Obj("nd"), Obj("pk"),
                                           Obj("rec")>>))

StaticIds == DOMAIN Static
NodeIds == StaticIds \cup GenIds \cup ExclIds

kind(n) ==
    IF n \in StaticIds THEN Static[n].kind
    ELSE IF n[1] = "gen" THEN "flood"
    ELSE IF n[1] = "x_int" THEN "intersect"
    ELSE IF n[1] = "x_neg" THEN "negate"
    ELSE "match"

\* the policies an assignment m.policy = ... installs
Installable == {Obj("top"), Obj("nd"), Obj("res"), Obj("flood")}

\* the objects whose attribute policy is replaced while the program runs
Dynamic == {Obj("nd"), Obj("m")}

\* packets.predicate: all_packets, then the latest refinement
ExclusionPredicate ==
    IF excl = <<>> THEN Obj("all_packets") ELSE x_int(Len(excl))

\* the children set_network is forwarded to, in the order of the code
Kids(n) ==
    IF n \in Dynamic THEN <<policy[n]>>
    ELSE IF n = Obj("pk") THEN <<Obj("pwfb"), ExclusionPredicate>>
    ELSE IF n \in StaticIds THEN Static[n].kids
    ELSE IF n[1] = "x_int"
         THEN <<x_neg(n[2]),
                IF n[2] = 1 THEN Obj("all_packets") ELSE x_int(n[2] - 1)>>
    ELSE IF n[1] = "x_neg" THEN <<x_match(n[2])>>
    ELSE <<>>

TopoKinds == {"flood", "ingress_network", "egress_network"}
TopoIds == {n \in NodeIds : kind(n) \in TopoKinds}
FloodIds == {n \in NodeIds : kind(n) = "flood"}

(***************************************************************************)
(* set_network                                                             *)
(***************************************************************************)
\* a set_network that does not keep the network it was given
StoreNetwork_Forgotten(n, s) == netw

\* NetworkEvaluated.set_network: self._network = network
StoreNetwork(n, s) == [netw EXCEPT ![n] = s]

\* a flood.set_network that recomputes on every call
SameNetwork_NotInFlood(n, s) == kind(n) /= "flood" /\ s = netw[n]

\* a NetworkDerivedPolicy.set_network that regenerates on every call
SameNetwork_NotInDerived(n, s) ==
    kind(n) /= "NetworkDerivedPolicy" /\ s = netw[n]

\* the test `network == self._network' every set_network starts with
SameNetwork(n, s) == s = netw[n]

\* recurse.set_network: `network == self.policy._network'
WrappedSameNetwork(n, s) == s = netw[Static[n].kids[1]]

\* the call returns at once
AlreadySet(n, s) ==
    IF kind(n) = "recurse"
    THEN WrappedSameNetwork(n, s) \/ SameNetwork(n, s)
    ELSE SameNetwork(n, s)

\* ingress_network.set_network, egress_network.set_network and
\* flood.set_network: the caches derived from the topology
UpdatedEgresses(n, s) ==
    IF egresses[n] = Some(egress_locations(s))
    THEN egresses[n] ELSE Some(egress_locations(s))

UpdatedMst(n, s) ==
    IF mst[n] /= Nothing
    THEN (IF mst[n] /= Some(minimum_spanning_tree(s))
          THEN Some(minimum_spanning_tree(s)) ELSE mst[n])
    ELSE Some(minimum_spanning_tree(s))

\* network.topology on None raises AttributeError, after the store
RaisesOnNone(n, s) ==
    kind(n) \in {"ingress_network", "egress_network"} /\ s = None

\* One call n.set_network(s) made by `from'; rest is the caller's stack,
\* log and ent are the calls and the stores of the operation so far.
\* The body up to the first call of a child runs here; the calls of the
\* children and the return are the steps of the frame pushed.
Deliver(from, n, s, rest, log, ent) ==
    /\ sent' = Append(log, [from |-> from, to |-> n, s |-> s, had |-> netw[n]])
    /\ IF AlreadySet(n, s)
       THEN /\ stack' = rest
            /\ entered' = ent
            /\ raised' = FALSE
            /\ UNCHANGED <<netw, egresses, mst, recomputed>>
       ELSE /\ netw' = StoreNetwork(n, s)
            /\ entered' = ent \cup {n}
            /\ IF RaisesOnNone(n, s)
               THEN /\ raised' = TRUE
                    /\ stack' = <<>>
                    /\ UNCHANGED <<egresses, mst, recomputed>>
               ELSE /\ raised' = FALSE
                    /\ stack' = <<[n |-> n, i |-> 1, s |-> s]>> \o rest
                    /\ IF kind(n) \in TopoKinds /\ s /= None
                       THEN /\ egresses' = [egresses EXCEPT ![n] = UpdatedEgresses(n, s)]
                            /\ recomputed' = [recomputed EXCEPT ![n] = @ + 1]
                            /\ mst' = IF kind(n) = "flood"
                                      THEN [mst EXCEPT ![n] = UpdatedMst(n, s)]
                                      ELSE mst
                       ELSE UNCHANGED <<egresses, mst, recomputed>>

\* the frame on top calls set_network on its next child
ForwardToChild ==
    /\ stack /= <<>>
    /\ Len(sent) < MaxCalls
    /\ LET f == Head(stack) IN
       /\ f.i <= Len(Kids(f.n))
       /\ Deliver(f.n, Kids(f.n)[f.i], f.s,
                  <<[f EXCEPT !.i = f.i + 1]>> \o Tail(stack), sent, entered)
    /\ UNCHANGED <<dynvars, pkvars, ops, lastop, returned>>

\* NetworkDerivedPolicy.set_network, after SinglyDerivedPolicy.set_network
\* has returned: self.policy = self.policy_from_network(network), or drop
Regenerate(f) ==
    IF f.s /= None
    THEN /\ policy' = [policy EXCEPT ![f.n] = gen(ngen + 1)]
         /\ ngen' = ngen + 1
         /\ pfncalls' = Append(pfncalls, f.s)
    ELSE /\ policy' = [policy EXCEPT ![f.n] = Obj("drop")]
         /\ UNCHANGED <<ngen, pfncalls>>

\* the frame on top has called every child: it returns
Return ==
    /\ stack /= <<>>
    /\ LET f == Head(stack) IN
       /\ f.i > Len(Kids(f.n))
       /\ stack' = Tail(stack)
       /\ IF kind(f.n) = "NetworkDerivedPolicy"
          THEN Regenerate(f)
          ELSE UNCHANGED dynvars
    /\ UNCHANGED <<netw, egresses, mst, raised, pkvars, ops, lastop, returned, ghost>>

(***************************************************************************)
(* Packets: a packet maps every field it has to the stack of its values,   *)
(* the current value first                                                 *)
(***************************************************************************)
available_fields(pkt) == DOMAIN pkt

\* packet[field], for a field the packet has
Current(pkt, field) == Head(pkt[field])

get_stack(pkt, field) == IF field \in DOMAIN pkt THEN pkt[field] ELSE <<>>

\* packet.pushmany(map)
pushmany(pkt, map) ==
    [f \in DOMAIN pkt \cup DOMAIN map |->
        IF f \in DOMAIN map THEN <<map[f]>> \o get_stack(pkt, f) ELSE pkt[f]]

\* packet.popmany(fields), for fields the packet has: a field whose stack
\* empties leaves the packet
popmany(pkt, fs) ==
    [f \in {g \in DOMAIN pkt : g \notin fs \/ Len(pkt[g]) > 1} |->
        IF f \in fs THEN Tail(pkt[f]) ELSE pkt[f]]

\* packet.modifymany(map), for fields the packet has
modifymany(pkt, map) == pushmany(popmany(pkt, DOMAIN map), map)

(***************************************************************************)
(* Results: what a call returned, or the exception it raised               *)
(***************************************************************************)
Ok(v) == [exc |-> "", val |-> v]
\* an exception out of a predicate, and out of a policy
PRaise(e) == [exc |-> e, val |-> FALSE]
Raise(e) == [exc |-> e, val |-> EmptyBag]

\* Counter([packet])
Counter1(pkt) == SetToBag({pkt})

(***************************************************************************)
(* Matching                                                                *)
(***************************************************************************)
\* number of low bits in which the addresses of the model differ
AddrBits == 8

\* IP.to_bits(): the 32 bits of an address below 2^AddrBits
to_bits(ip) ==
    [i \in 1..32 |-> IF i <= 32 - AddrBits THEN 0 ELSE (ip \div (2^(32 - i))) % 2]

ExactMatch(v) == [ptype |-> "ExactMatch", pattern |-> v, masklen |-> 32]
PrefixMatch(v, len) == [ptype |-> "PrefixMatch", pattern |-> v, masklen |-> len]

\* field_patterntype(field)(v), v an address object or a plain value
field_patterntype(field, v) ==
    IF field \in {"srcip", "dstip"} THEN PrefixMatch(v, 32) ELSE ExactMatch(v)

\* ExactMatch.match and PrefixMatch.match
PatternMatch(p, other) ==
    IF p.ptype = "ExactMatch"
    THEN p.pattern = other
    ELSE SubSeq(to_bits(p.pattern), 1, p.masklen)
            = SubSeq(to_bits(other), 1, p.masklen)

\* match.__init__: args maps a field to Nothing (None) or Some(value)
match(args) ==
    [f \in DOMAIN args |->
        IF args[f] /= Nothing
        THEN Some(field_patterntype(f, args[f][1])) ELSE Nothing]

\* match.eval
match_eval(map, pkt) ==
    \A f \in DOMAIN map :
        IF get_stack(pkt, f) /= <<>>
        THEN map[f] /= Nothing /\ PatternMatch(map[f][1], Current(pkt, f))
        ELSE map[f] = Nothing

\* the arguments the match, push, pop and modify objects were built with
Attr ==
       (Obj("mF1")     :> [srcip |-> Some(1)])
    @@ (Obj("fw_m")    :> [outport |-> Some(-1)])
    @@ (Obj("fw_pop")  :> {"outport"})
    @@ (Obj("fw_push") :> [outport |-> 2])
    @@ (Obj("modX")    :> [srcip |-> 2])
    @@ (Obj("modA")    :> [srcip |-> 1])
    @@ (Obj("modB")    :> [srcip |-> 2])
    @@ (Obj("modY")    :> [srcip |-> 3])
    @@ (Obj("mv1")     :> [dstip |-> "srcip"])
    @@ (Obj("mv2")     :> [inport |-> "srcip", vlan |-> "outport"])
    @@ (Obj("mv3")     :> [vlan |-> "outport"])

\* match.map of a match object; the i-th refinement of the packets
\* bucket matches val = {h : pkt[h] for h in self.fields}
MatchMap(n) ==
    IF n \in StaticIds
    THEN match(Attr[n])
    ELSE match([f \in DOMAIN excl[n[2]] |-> Some(excl[n[2]][f])])

(***************************************************************************)
(* Predicates: eval                                                        *)
(***************************************************************************)
\* ingress_network.eval
ingress_eval(n, pkt) ==
    IF "switch" \notin DOMAIN pkt \/ "inport" \notin DOMAIN pkt
    THEN PRaise("KeyError")
    ELSE IF egresses[n] = Nothing
    THEN PRaise("TypeError")
    ELSE Ok(<<Current(pkt, "switch"), Current(pkt, "inport")>> \in egresses[n][1])

\* egress_network.eval
egress_eval(n, pkt) ==
    IF "switch" \notin DOMAIN pkt
    THEN PRaise("KeyError")
    ELSE IF "outport" \notin DOMAIN pkt
    THEN Ok(FALSE)
    ELSE IF egresses[n] = Nothing
    THEN PRaise("TypeError")
    ELSE Ok(<<Current(pkt, "switch"), Current(pkt, "outport")>> \in egresses[n][1])

RECURSIVE PredEval(_, _)
RECURSIVE AnyEval(_, _)
RECURSIVE AllEval(_, _)

\* union.eval: any(predicate.eval(packet) for predicate in self.predicates)
AnyEval(preds, pkt) ==
    IF preds = <<>> THEN Ok(FALSE)
    ELSE LET r == PredEval(Head(preds), pkt)
         IN IF r.exc /= "" \/ r.val THEN r ELSE AnyEval(Tail(preds), pkt)

\* an intersect.eval that is false when there is nothing to intersect
AllEval_EmptyFalse(preds, pkt) ==
    IF preds = <<>> THEN Ok(FALSE)
    ELSE LET r == PredEval(Head(preds), pkt)
         IN IF r.exc /= "" \/ ~r.val \/ Len(preds) = 1 THEN r
            ELSE AllEval(Tail(preds), pkt)

\* intersect.eval: all(predicate.eval(packet) for predicate in self.predicates)
AllEval(preds, pkt) ==
    IF preds = <<>> THEN Ok(TRUE)
    ELSE LET r == PredEval(Head(preds), pkt)
         IN IF r.exc /= "" \/ ~r.val THEN r ELSE AllEval(Tail(preds), pkt)

\* a negate.eval that returns what its predicate returned
negate_eval_Identity(r) == r

\* negate.eval
negate_eval(r) == IF r.exc /= "" THEN r ELSE Ok(~r.val)

PredEval(n, pkt) ==
    CASE kind(n) = "all_packets" -> Ok(TRUE)
      [] kind(n) = "no_packets" -> Ok(FALSE)
      [] kind(n) = "ingress_network" -> ingress_eval(n, pkt)
      [] kind(n) = "egress_network" -> egress_eval(n, pkt)
      [] kind(n) = "match" -> Ok(match_eval(MatchMap(n), pkt))
      [] kind(n) = "union" -> AnyEval(Kids(n), pkt)
      [] kind(n) = "intersect" -> AllEval(Kids(n), pkt)
      [] kind(n) = "negate" -> negate_eval(PredEval(Kids(n)[1], pkt))
      [] kind(n) = "difference" -> PredEval(Kids(n)[1], pkt)

(***************************************************************************)
(* Policies: eval.  The order in which sequential.eval walks its Counter   *)
(* is the order of a dict, which the program does not choose: eval is the  *)
(* set of the results the orders can give.                                 *)
(***************************************************************************)
\* the orders a dict with keys S can be walked in
Orders(S) ==
    {q \in [1..Cardinality(S) -> S] : \A i, j \in DOMAIN q : i /= j => q[i] /= q[j]}

\* a flood.eval that also sends the packet back out of its inport
flood_eval_WithInport(n, pkt) ==
    IF netw[n] = None THEN Ok(EmptyBag)
    ELSE IF "switch" \notin DOMAIN pkt \/ "inport" \notin DOMAIN pkt
    THEN Raise("KeyError")
    ELSE LET switch == Current(pkt, "switch")
             tree == mst[n][1]
             port_nos == {loc[2] : loc \in {l \in egresses[n][1] : l[1] = switch}}
                         \cup {e[3] : e \in {d \in tree.edges : d[1] = switch}}
         IN IF switch \in tree.nodes
            THEN Ok(SetToBag({pushmany(pkt, [outport |-> p]) : p \in port_nos}))
            ELSE Ok(EmptyBag)

\* flood.eval
flood_eval(n, pkt) ==
    IF netw[n] = None THEN Ok(EmptyBag)
    ELSE IF "switch" \notin DOMAIN pkt \/ "inport" \notin DOMAIN pkt
    THEN Raise("KeyError")
    ELSE LET switch == Current(pkt, "switch")
             inport == Current(pkt, "inport")
             tree == mst[n][1]
             port_nos == {loc[2] : loc \in {l \in egresses[n][1] : l[1] = switch}}
                         \cup {e[3] : e \in {d \in tree.edges : d[1] = switch}}
             out(port_no) ==
                 IF "outport" \in DOMAIN pkt /\ Current(pkt, "outport") = -1
                 THEN modifymany(pkt, [outport |-> port_no])
                 ELSE pushmany(pkt, [outport |-> port_no])
         IN IF switch \in tree.nodes
            THEN Ok(SetToBag({out(p) : p \in port_nos \ {inport}}))
            ELSE Ok(EmptyBag)

\* a pop.eval that leaves the packet as it is
pop_eval_Keeps(fs, pkt) == Ok(Counter1(pkt))

\* pop.eval
pop_eval(fs, pkt) ==
    IF fs \subseteq DOMAIN pkt THEN Ok(Counter1(popmany(pkt, fs)))
    ELSE Raise("KeyError")

\* modify.eval
modify_eval(map, pkt) ==
    IF DOMAIN map \subseteq DOMAIN pkt THEN Ok(Counter1(modifymany(pkt, map)))
    ELSE Raise("KeyError")

\* a move.eval that pushes and does not pop
move_eval_Copy(map, pkt) ==
    LET present == {d \in DOMAIN map : map[d] \in available_fields(pkt)}
        pushes == [d \in present |-> Current(pkt, map[d])]
    IN Ok(Counter1(pushmany(pkt, pushes)))

\* move.eval: map is dstfield -> srcfield; a pair whose source the packet
\* lacks is skipped (KeyError caught), the others push and pop
move_eval(map, pkt) ==
    LET present == {d \in DOMAIN map : map[d] \in available_fields(pkt)}
        pushes == [d \in present |-> Current(pkt, map[d])]
        pops == {map[d] : d \in present}
    IN Ok(Counter1(popmany(pushmany(pkt, pushes), pops)))

\* the last of the packets q[1..k] that yields y
LastYielding(q, ch, y, k) ==
    CHOOSE i \in 1..k :
        /\ y \in BagToSet(ch[q[i]].val)
        /\ \A j \in (i + 1)..k : y \notin BagToSet(ch[q[j]].val)

\* the first of the packets q[..] whose evaluation raised
FirstRaising(q, ch) ==
    CHOOSE i \in DOMAIN q :
        /\ ch[q[i]].exc /= ""
        /\ \A j \in 1..(i - 1) : ch[q[j]].exc = ""

\* one round of sequential.eval: lc walked in the order q, ch[lpacket]
\* what policy.eval(lpacket) gave; c[rpacket] = lcount * rcount
SequentialRound(lc, q, ch) ==
    IF \E x \in BagToSet(lc) : ch[x].exc /= ""
    THEN Raise(ch[q[FirstRaising(q, ch)]].exc)
    ELSE Ok([y \in UNION {BagToSet(ch[x].val) : x \in BagToSet(lc)} |->
               LET x == q[LastYielding(q, ch, y, Len(q))]
               IN lc[x] * ch[x].val[y]])

RECURSIVE PolEval(_, _)
RECURSIVE ParallelEval(_, _)
RECURSIVE SequentialFrom(_, _)

\* the results of evaluating the policy p on every packet of lc
Choices(p, lc) ==
    {ch \in [BagToSet(lc) -> UNION {PolEval(p, x) : x \in BagToSet(lc)}] :
        \A x \in BagToSet(lc) : ch[x] \in PolEval(p, x)}

\* a parallel.eval that keeps one copy of every packet its policies yield
ParallelEval_Union(policies, pkt) ==
    {Ok(SetToBag(UNION {BagToSet((CHOOSE r \in PolEval(policies[i], pkt) : TRUE).val) :
                           i \in DOMAIN policies}))}

\* parallel.eval: c.update(rc) for every policy
ParallelEval(policies, pkt) ==
    IF policies = <<>> THEN {Ok(EmptyBag)}
    ELSE UNION {IF rc.exc /= "" THEN {rc}
                ELSE {IF c.exc /= "" THEN c ELSE Ok(rc.val (+) c.val) :
                         c \in ParallelEval(Tail(policies), pkt)} :
                rc \in PolEval(Head(policies), pkt)}

\* sequential.eval, from the Counters lcs the rounds so far can have left
SequentialFrom(policies, lcs) ==
    IF policies = <<>> THEN lcs
    ELSE SequentialFrom(Tail(policies),
            UNION {IF lc.exc /= "" THEN {lc}
                   ELSE {SequentialRound(lc.val, q, ch) :
                            q \in Orders(BagToSet(lc.val)),
                            ch \in Choices(Head(policies), lc.val)} :
                   lc \in lcs})

\* sequential.eval
SequentialEval(policies, pkt) == SequentialFrom(policies, {Ok(Counter1(pkt))})

\* a restrict.eval that evaluates the policy whatever the predicate says
restrict_eval_Always(r, p, pkt) ==
    IF r.exc /= "" THEN {Raise(r.exc)} ELSE PolEval(p, pkt)

\* restrict.eval, and remove.eval with the test negated
restrict_eval(r, p, pkt) ==
    IF r.exc /= "" THEN {Raise(r.exc)}
    ELSE IF r.val THEN PolEval(p, pkt) ELSE {Ok(EmptyBag)}

PolEval(n, pkt) ==
    CASE kind(n) = "passthrough" -> {Ok(Counter1(pkt))}
      [] kind(n) = "drop" -> {Ok(EmptyBag)}
      [] kind(n) = "flood" -> {flood_eval(n, pkt)}
      [] kind(n) = "push" -> {Ok(Counter1(pushmany(pkt, Attr[n])))}
      [] kind(n) = "pop" -> {pop_eval(Attr[n], pkt)}
      [] kind(n) = "modify" -> {modify_eval(Attr[n], pkt)}
      [] kind(n) = "move" -> {move_eval(Attr[n], pkt)}
      [] kind(n) = "parallel" -> ParallelEval(Kids(n), pkt)
      [] kind(n) = "sequential" -> SequentialEval(Kids(n), pkt)
      [] kind(n) = "restrict" ->
            restrict_eval(PredEval(Kids(n)[2], pkt), Kids(n)[1], pkt)
      [] kind(n) = "remove" ->
            restrict_eval(negate_eval(PredEval(Kids(n)[2], pkt)), Kids(n)[1], pkt)
      [] kind(n) \in {"fwd", "if_", "recurse", "NetworkDerivedPolicy",
                      "MutablePolicy"} -> PolEval(Kids(n)[1], pkt)

\* what a top-level operation records of the state it started in
Started(op, arg) ==
    [op |-> op, arg |-> arg, netw0 |-> netw, recomputed0 |-> recomputed,
     installs |-> lastop.installs + (IF op = "install" THEN 1 ELSE 0)]

\* the runtime calls root.set_network(s)
Call(root, s) ==
    /\ stack = <<>>
    /\ ops < MaxOps
    /\ ops' = ops + 1
    /\ lastop' = Started("set_network", s)
    /\ Deliver(Obj("runtime"), root, s, <<>>, <<>>, {})
    /\ result' = <<>>
    /\ verdict' = <<>>
    /\ UNCHANGED <<dynvars, pkvars>>

\* m.set_network(s), m the root policy of the runtime
SetNetwork == \E s \in NetOrNone : Call(Obj("m"), s)

\* a setter that only stores the policy
Install_NoSetNetwork ==
    \E value \in Installable :
        /\ stack = <<>>
        /\ ops < MaxOps
        /\ ops' = ops + 1
        /\ lastop' = Started("install", netw[Obj("m")])
        /\ policy' = [policy EXCEPT ![Obj("m")] = value]
        /\ sent' = <<>>
        /\ entered' = {}
        /\ UNCHANGED <<netvars, recomputed, pfncalls, ngen, pkvars, returned>>

\* MutablePolicy.policy's setter: m.policy = value
Install ==
    \E value \in Installable :
        /\ stack = <<>>
        /\ ops < MaxOps
        /\ ops' = ops + 1
        /\ lastop' = Started("install", netw[Obj("m")])
        /\ policy' = [policy EXCEPT ![Obj("m")] = value]
        /\ Deliver(Obj("m"), value, netw[Obj("m")], <<>>, <<>>, {})
        /\ UNCHANGED <<pfncalls, ngen, pkvars, returned>>

(***************************************************************************)
(* Evaluation of a packet the runtime hands over                           *)
(***************************************************************************)
\* the arguments <<pred1, pred2>> the difference objects were built with
DifferenceArgs ==
       (Obj("diff")  :> <<Obj("un"), Obj("mF1")>>)
    @@ (Obj("diff2") :> <<Obj("mF1"), Obj("fw_m")>>)

\* the arguments <<pred, t_branch, f_branch>> the if_ objects were built
\* with; f_branch is passthrough where the call omitted it
IfArgs ==
       (Obj("if")    :> <<Obj("mF1"), Obj("modX"), Obj("pass")>>)
    @@ (Obj("ife")   :> <<Obj("mF1"), Obj("modY"), Obj("split")>>)
    @@ (Obj("fw_if") :> <<Obj("fw_m"), Obj("fw_pop"), Obj("pass")>>)

\* the packets the runtime evaluates
EvalPackets ==
    { [switch |-> <<1>>, inport |-> <<2>>, srcip |-> <<1>>],
      [switch |-> <<2>>, inport |-> <<1>>, srcip |-> <<2>>],
      [switch |-> <<2>>, outport |-> <<1>>, srcip |-> <<1>>],
      [switch |-> <<3>>, inport |-> <<1>>, outport |-> <<-1>>, srcip |-> <<1, 2>>],
      [switch |-> <<1>>, inport |-> <<1>>, outport |-> <<-1, 1>>, srcip |-> <<2>>] }

\* the predicates and the policies the runtime evaluates
EvalPredicates ==
    {Obj("all_packets"), Obj("no_packets"), Obj("ing"), Obj("egr"),
     Obj("mF1"), Obj("fw_m"), Obj("un"), Obj("diff"), Obj("diff2"),
     Obj("un0"), Obj("int0"), Obj("un3"), Obj("int3"), Obj("d_int")}

EvalPolicies ==
    {Obj("flood"), Obj("res"), Obj("rem"), Obj("if"), Obj("fw"),
     Obj("par0"), Obj("twice"), Obj("thrice"), Obj("split"),
     Obj("split3"), Obj("if_par"), Obj("mv1"), Obj("mv2"), Obj("mv3"),
     Obj("ife"), Obj("fw_if")}

\* the policies a sequential is built of, and the lists of them
Composable ==
    {Obj("pass"), Obj("drop"), Obj("modY"), Obj("twice"), Obj("thrice"),
     Obj("split"), Obj("split3")}

PolicyLists == UNION {[1..k -> Composable] : k \in 0..MaxLen}

\* predicate.eval(packet)
EvalPredicate ==
    \E n \in EvalPredicates, pkt \in EvalPackets :
        /\ stack = <<>>
        /\ lastop' = Started("Predicate.eval", <<n, pkt>>)
        /\ verdict' = PredEval(n, pkt)
        /\ result' = <<>>
        /\ UNCHANGED <<netvars, dynvars, pkvars, ops, ghost>>

\* policy.eval(packet)
EvalPolicy ==
    \E n \in EvalPolicies, pkt \in EvalPackets :
        /\ stack = <<>>
        /\ lastop' = Started("Policy.eval", <<n, pkt>>)
        /\ result' \in PolEval(n, pkt)
        /\ verdict' = <<>>
        /\ UNCHANGED <<netvars, dynvars, pkvars, ops, ghost>>

\* sequential(policies).eval(packet)
EvalSequential ==
    \E policies \in PolicyLists, pkt \in EvalPackets :
        /\ stack = <<>>
        /\ lastop' = Started("sequential.eval", <<policies, pkt>>)
        /\ result' \in SequentialEval(policies, pkt)
        /\ verdict' = <<>>
        /\ UNCHANGED <<netvars, dynvars, pkvars, ops, ghost>>

\* top.set_network(s), top a composite policy the runtime holds
SetNetworkTop == \E s \in NetOrNone : Call(Obj("top"), s)

(***************************************************************************)
(* The packets bucket                                                      *)
(***************************************************************************)
\* the packets the bucket is handed: two that differ in srcip only in
\* part, one with another srcip, one without srcip
BucketPackets ==
    { [switch |-> <<1>>, inport |-> <<2>>, srcip |-> <<1>>],
      [switch |-> <<2>>, outport |-> <<1>>, srcip |-> <<1>>],
      [switch |-> <<2>>, inport |-> <<1>>, srcip |-> <<2>>],
      [switch |-> <<1>>, inport |-> <<2>>] }

\* the arguments packets(limit, fields) is built with
Limits == {Nothing, Some(0), Some(1), Some(2)}
FieldLists == {<<>>, <<"srcip">>}

\* the function registered as a callback
Callbacks == {"cb1"}

\* the fields PredicateWrappedFwdBucket.eval matches on: self.fields, or
\* packet.available_fields() when self.fields is empty
GroupFields(pkt) ==
    IF fields /= <<>> THEN {fields[i] : i \in DOMAIN fields}
    ELSE available_fields(pkt)

\* pred = match([(field, packet[field]) for field in ...]), as its map
GroupMatch(pkt) == match([f \in GroupFields(pkt) |-> Some(Current(pkt, f))])

\* PredicateWrappedFwdBucket.eval: what it returns or raises, self.seen
\* afterwards and the listeners FwdBucket.eval called
pwfb_eval(pkt) ==
    IF limit = Nothing
    THEN [exc |-> "", val |-> TRUE, seen |-> seen, called |-> listeners]
    ELSE IF ~(GroupFields(pkt) \subseteq DOMAIN pkt)
    THEN [exc |-> "KeyError", val |-> FALSE, seen |-> seen, called |-> <<>>]
    ELSE LET pred == GroupMatch(pkt)
             counted == seen (+) SetToBag({pred})
         IN IF CopiesIn(pred, counted) > limit[1]
            THEN [exc |-> "", val |-> FALSE, seen |-> counted, called |-> <<>>]
            ELSE [exc |-> "", val |-> TRUE, seen |-> counted, called |-> listeners]

\* val = {h : pkt[h] for h in self.fields}
ExclusionVal(pkt) == [h \in {fields[i] : i \in DOMAIN fields} |-> Current(pkt, h)]

\* FwdBucket.register_callback(fn), through packets.register_callback
RegisterCallback ==
    \E fn \in Callbacks :
        /\ stack = <<>>
        /\ Len(listeners) < MaxListeners
        /\ listeners' = Append(listeners, fn)
        /\ UNCHANGED <<netvars, dynvars, limit, fields, seen, excl, heard,
                       evald, aggvars, observed, ops, lastop, returned, ghost>>

\* a packets.eval that does not set the network of the predicate it builds
PacketsEval_NoSetNetwork ==
    \E pkt \in BucketPackets :
        LET open == PredEval(ExclusionPredicate, pkt).val
            r == pwfb_eval(pkt)
            called == IF open THEN r.called ELSE <<>>
        IN
        /\ stack = <<>>
        /\ Len(evald) < MaxEvals
        /\ lastop' = Started("packets.eval", <<Obj("pk"), pkt>>)
        /\ evald' = Append(evald, [pkt |-> pkt, registered |-> listeners,
                                   called |-> called])
        /\ heard' = heard \o [i \in 1..Len(called) |-> <<called[i], pkt>>]
        /\ seen' = IF open THEN r.seen ELSE seen
        /\ result' = IF open /\ r.exc /= "" THEN Raise(r.exc) ELSE Ok(EmptyBag)
        /\ verdict' = <<>>
        /\ IF open /\ r.exc = "" /\ ~r.val
           THEN /\ excl' = Append(excl, ExclusionVal(pkt))
                /\ UNCHANGED <<netvars, ghost>>
           ELSE UNCHANGED <<excl, netvars, ghost>>
        /\ UNCHANGED <<dynvars, limit, fields, listeners, aggvars, observed, ops>>

\* packets.eval(pkt)
PacketsEval ==
    \E pkt \in BucketPackets :
        LET open == PredEval(ExclusionPredicate, pkt).val
            r == pwfb_eval(pkt)
            called == IF open THEN r.called ELSE <<>>
        IN
        /\ stack = <<>>
        /\ Len(evald) < MaxEvals
        /\ lastop' = Started("packets.eval", <<Obj("pk"), pkt>>)
        /\ evald' = Append(evald, [pkt |-> pkt, registered |-> listeners,
                                   called |-> called])
        /\ heard' = heard \o [i \in 1..Len(called) |-> <<called[i], pkt>>]
        /\ seen' = IF open THEN r.seen ELSE seen
        /\ result' = IF open /\ r.exc /= "" THEN Raise(r.exc) ELSE Ok(EmptyBag)
        /\ verdict' = <<>>
        /\ IF open /\ r.exc = "" /\ ~r.val
           THEN /\ excl' = Append(excl, ExclusionVal(pkt))
                /\ Deliver(Obj("pk"), x_int(Len(excl) + 1), netw[Obj("pk")],
                           <<>>, <<>>, {})
           ELSE UNCHANGED <<excl, netvars, ghost>>
        /\ UNCHANGED <<dynvars, limit, fields, listeners, aggvars, observed, ops>>

\* pk.set_network(s), pk the packets bucket the runtime holds
PacketsSetNetwork ==
    \E s \in NetOrNone : ops < MaxBucketOps /\ Call(Obj("pk"), s)

(***************************************************************************)
(* A thread that evaluates packets while another thread of the runtime     *)
(* delivers a topology change                                              *)
(***************************************************************************)
\* the policies the evaluating thread evaluates: res, restrict(flood,
\* ingress_network() | egress_network()), and its flood
ConcurrentPolicies == {Obj("res"), Obj("flood")}

\* res.set_network(s), res a policy the runtime holds
SetNetworkRes == \E s \in Nets : Call(Obj("res"), s)

\* n.eval(pkt) by the evaluating thread, between two steps of the
\* set_network call in progress; that call is res.set_network(new) and
\* res held the network old when it started
ConcurrentEval ==
    \E n \in ConcurrentPolicies, pkt \in EvalPackets :
        /\ stack /= <<>>
        /\ observed' = [n |-> n, pkt |-> pkt, old |-> sent[1].had,
                        new |-> sent[1].s]
        /\ result' \in PolEval(n, pkt)
        /\ verdict' = <<>>
        /\ UNCHANGED <<netvars, dynvars, limit, fields, seen, excl, listeners,
                       heard, evald, aggvars, ops, lastop, ghost>>

(***************************************************************************)
(* track_eval: evaluation that also returns the objects traversed          *)
(***************************************************************************)
\* the list track_eval returns next to the result: [self] (shape "self"),
\* [self, traversed] with the list a child returned (shape "one") or
\* with the list of the lists the children returned (shape "list");
\* shape "raised" where the call raised and returned nothing
Traversed(n, shape, kids) == [node |-> n, shape |-> shape, kids |-> kids]

Tracked(r, t) == [exc |-> r.exc, val |-> r.val, trace |-> t]

TrackRaised(n, exc) == Tracked(PRaise(exc), Traversed(n, "raised", <<>>))

\* NetworkEvaluated.track_eval: (self.eval(packet), [self])
DefaultTrack(n, r) ==
    IF r.exc /= "" THEN TrackRaised(n, r.exc)
    ELSE Tracked(r, Traversed(n, "self", <<>>))

RECURSIVE TrackPred(_, _)
RECURSIVE intersect_track_eval(_, _, _, _)

\* intersect.track_eval, from the predicates still to visit and the
\* lists of those visited
intersect_track_eval(n, preds, pkt, traversed) ==
    IF preds = <<>> THEN Tracked(Ok(TRUE), Traversed(n, "list", traversed))
    ELSE LET r == TrackPred(Head(preds), pkt)
         IN IF r.exc /= "" THEN TrackRaised(n, r.exc)
            ELSE IF ~r.val
            THEN Tracked(Ok(FALSE), Traversed(n, "list", Append(traversed, r.trace)))
            ELSE intersect_track_eval(n, Tail(preds), pkt, Append(traversed, r.trace))

\* predicate.track_eval(pkt): intersect, negate and SinglyDerivedPredicate
\* (difference) define it, the other predicates inherit the default
TrackPred(n, pkt) ==
    CASE kind(n) = "intersect" -> intersect_track_eval(n, Kids(n), pkt, <<>>)
      [] kind(n) = "negate" ->
            LET r == TrackPred(Kids(n)[1], pkt)
            IN IF r.exc /= "" THEN TrackRaised(n, r.exc)
               ELSE Tracked(Ok(~r.val), Traversed(n, "one", <<r.trace>>))
      [] kind(n) = "difference" ->
            LET r == TrackPred(Kids(n)[1], pkt)
            IN IF r.exc /= "" THEN TrackRaised(n, r.exc)
               ELSE Tracked(Ok(r.val), Traversed(n, "one", <<r.trace>>))
      [] OTHER -> DefaultTrack(n, PredEval(n, pkt))

RECURSIVE TrackPol(_, _)
RECURSIVE parallel_track_eval(_, _)
RECURSIVE sequential_track_from(_, _)

\* the results of policy.track_eval on every packet of lc
TrackChoices(p, lc) ==
    {ch \in [BagToSet(lc) -> UNION {TrackPol(p, x) : x \in BagToSet(lc)}] :
        \A x \in BagToSet(lc) : ch[x] \in TrackPol(p, x)}

\* parallel.track_eval: c.update(rc) for every policy
parallel_track_eval(policies, pkt) ==
    IF policies = <<>> THEN {Ok(EmptyBag)}
    ELSE UNION {IF rc.exc /= "" THEN {rc}
                ELSE {IF c.exc /= "" THEN c ELSE Ok(rc.val (+) c.val) :
                         c \in parallel_track_eval(Tail(policies), pkt)} :
                rc \in TrackPol(Head(policies), pkt)}

\* sequential.track_eval, from the Counters the rounds so far can have
\* left; a round is c[rpacket] = lcount * rcount as in sequential.eval
sequential_track_from(policies, lcs) ==
    IF policies = <<>> THEN lcs
    ELSE sequential_track_from(Tail(policies),
            UNION {IF lc.exc /= "" THEN {lc}
                   ELSE {SequentialRound(lc.val, q, ch) :
                            q \in Orders(BagToSet(lc.val)),
                            ch \in TrackChoices(Head(policies), lc.val)} :
                   lc \in lcs})

\* a restrict.track_eval that evaluates the policy whatever the predicate
\* says
restrict_track_eval_Always(r, p, pkt) ==
    IF r.exc /= "" THEN {Raise(r.exc)} ELSE TrackPol(p, pkt)

\* restrict.track_eval, and remove.track_eval with the test negated; r is
\* what predicate.track_eval returned
restrict_track_eval(r, p, pkt) ==
    IF r.exc /= "" THEN {Raise(r.exc)}
    ELSE IF r.val THEN TrackPol(p, pkt) ELSE {Ok(EmptyBag)}

\* policy.track_eval(pkt), the Counters it can return: parallel,
\* sequential, restrict, remove and SinglyDerivedPolicy define it, the
\* other policies inherit the default
TrackPol(n, pkt) ==
    CASE kind(n) = "parallel" -> parallel_track_eval(Kids(n), pkt)
      [] kind(n) = "sequential" ->
            sequential_track_from(Kids(n), {Ok(Counter1(pkt))})
      [] kind(n) = "restrict" ->
            restrict_track_eval(TrackPred(Kids(n)[2], pkt), Kids(n)[1], pkt)
      [] kind(n) = "remove" ->
            LET r == TrackPred(Kids(n)[2], pkt)
            IN restrict_track_eval(IF r.exc /= "" THEN r ELSE Ok(~r.val),
                                   Kids(n)[1], pkt)
      [] kind(n) \in {"fwd", "if_", "recurse", "NetworkDerivedPolicy",
                      "MutablePolicy"} -> TrackPol(Kids(n)[1], pkt)
      [] OTHER -> PolEval(n, pkt)

\* the predicates and policies track_eval is called on
TrackPredicates ==
    EvalPredicates \cup {Obj("d2_int"), Obj("d2_neg")}

TrackPolicies == EvalPolicies \cup {Obj("fw_seq"), Obj("rec")}

\* the bucket has not been used yet
Unused == evald = <<>> /\ listeners = <<>>

\* the last operation was not a track_eval of a predicate or policy:
\* these leave every object as it is, so a second call in a row starts
\* from a state a first call starts from
Fresh == lastop.op \notin {"Predicate.track_eval", "Policy.track_eval"}

\* top.set_network(s), before the bucket is used
SetNetworkUnused == Unused /\ SetNetworkTop

\* n.track_eval(pkt), n a predicate
TrackPredicate ==
    \E n \in TrackPredicates, pkt \in EvalPackets :
        /\ stack = <<>>
        /\ Unused
        /\ Fresh
        /\ lastop' = Started("Predicate.track_eval", <<n, pkt>>)
        /\ verdict' = TrackPred(n, pkt)
        /\ result' = <<>>
        /\ UNCHANGED <<netvars, dynvars, pkvars, ops, ghost>>

\* n.track_eval(pkt), n a policy
TrackPolicy ==
    \E n \in TrackPolicies, pkt \in EvalPackets :
        /\ stack = <<>>
        /\ Unused
        /\ Fresh
        /\ lastop' = Started("Policy.track_eval", <<n, pkt>>)
        /\ result' \in TrackPol(n, pkt)
        /\ verdict' = <<>>
        /\ UNCHANGED <<netvars, dynvars, pkvars, ops, ghost>>

\* packets.track_eval(pkt); pwfb.track_eval is the default, pwfb.eval
PacketsTrackEval ==
    \E pkt \in BucketPackets :
        LET open == TrackPred(ExclusionPredicate, pkt).val
            r == pwfb_eval(pkt)
            called == IF open THEN r.called ELSE <<>>
        IN
        /\ stack = <<>>
        /\ Len(evald) < MaxTracked
        /\ lastop' = Started("packets.track_eval", <<Obj("pk"), pkt>>)
        /\ evald' = Append(evald, [pkt |-> pkt, registered |-> listeners,
                                   called |-> called])
        /\ heard' = heard \o [i \in 1..Len(called) |-> <<called[i], pkt>>]
        /\ seen' = IF open THEN r.seen ELSE seen
        /\ result' = IF open /\ r.exc /= "" THEN Raise(r.exc) ELSE Ok(EmptyBag)
        /\ verdict' = <<>>
        /\ IF open /\ r.exc = "" /\ ~r.val
           THEN /\ excl' = Append(excl, ExclusionVal(pkt))
                /\ Deliver(Obj("pk"), x_int(Len(excl) + 1), netw[Obj("pk")],
                           <<>>, <<>>, {})
           ELSE UNCHANGED <<excl, netvars, ghost>>
        /\ UNCHANGED <<dynvars, limit, fields, listeners, aggvars, observed, ops>>

(***************************************************************************)
(* Patterns and match objects the application builds and compares          *)
(***************************************************************************)
\* the arguments of PrefixMatch: an address, or the parts of the string
\* "address/masklen" after pattern.split("/")
PrefixArgs == {<<a>> : a \in {1, 2}} \cup {<<a, l>> : a \in {1, 2}, l \in {8, 24, 32}}

\* PrefixMatch.__init__
PrefixMatch_init(parts) ==
    PrefixMatch(parts[1], IF Len(parts) = 2 THEN parts[2] ELSE 32)

\* the patterns compared
Patterns == {PrefixMatch_init(a) : a \in PrefixArgs} \cup {ExactMatch(v) : v \in {1, 2}}

\* ExactMatch.__eq__ and PrefixMatch.__eq__: self.pattern == other.pattern
Pattern_eq(p, q) == p.pattern = q.pattern

\* ExactMatch.__hash__ and PrefixMatch.__hash__: hash(self.pattern), the
\* hash of a value taken as the value
Pattern_hash(p) == p.pattern

\* the maps of the match objects compared: srcip None, or a prefix
\* pattern, with or without a pattern on inport
MatchMaps ==
    LET srcips == {Nothing} \cup {Some(PrefixMatch_init(a)) : a \in PrefixArgs}
    IN {[srcip |-> s] : s \in srcips}
       \cup {[srcip |-> s, inport |-> Some(ExactMatch(v))] : s \in srcips, v \in {1, 2}}

\* v1 == v2 for two values of a match map: None is only equal to None,
\* and comparing None with a pattern ends in pattern.__eq__(None), which
\* raises AttributeError
Value_eq(v1, v2) ==
    IF v1 = Nothing /\ v2 = Nothing THEN Ok(TRUE)
    ELSE IF v1 = Nothing \/ v2 = Nothing THEN PRaise("AttributeError")
    ELSE Ok(Pattern_eq(v1[1], v2[1]))

\* match.__eq__: self.map == other.map, the comparison of two dicts, which
\* visits the keys in an order of its own and stops at the first
\* difference or exception: the outcomes it can have
match_eq(m1, m2) ==
    IF DOMAIN m1 /= DOMAIN m2 THEN {Ok(FALSE)}
    ELSE LET rs == {Value_eq(m1[f], m2[f]) : f \in DOMAIN m1}
             stops == {r \in rs : r.exc /= "" \/ ~r.val}
         IN IF stops = {} THEN {Ok(TRUE)} ELSE stops

\* p == q for two patterns of one pattern type
ComparePatterns ==
    \E p \in Patterns, q \in Patterns :
        /\ p.ptype = q.ptype
        /\ lastop' = Started("pattern.__eq__", <<p, q>>)
        /\ verdict' = Ok(Pattern_eq(p, q))
        /\ result' = <<>>
        /\ UNCHANGED <<netvars, dynvars, pkvars, ops, ghost>>

\* m1 == m2 for two match objects
CompareMatches ==
    \E m1 \in MatchMaps, m2 \in MatchMaps :
        /\ lastop' = Started("match.__eq__", <<m1, m2>>)
        /\ verdict' \in match_eq(m1, m2)
        /\ result' = <<>>
        /\ UNCHANGED <<netvars, dynvars, pkvars, ops, ghost>>

(***************************************************************************)
(* A forwarding bucket the runtime holds                                   *)
(***************************************************************************)
\* the functions registered with it
Listeners == {"cb1", "cb2"}

\* a FwdBucket.eval that calls every registered function once
FwdBucket_calls_Distinct(ls, arg) ==
    LET first == {i \in DOMAIN ls : \A j \in 1..(i - 1) : ls[j] /= ls[i]}
        RECURSIVE from(_)
        from(i) == IF i > Len(ls) THEN <<>>
                   ELSE (IF i \in first THEN <<<<ls[i], arg>>>> ELSE <<>>)
                        \o from(i + 1)
    IN from(1)

\* FwdBucket.eval(arg): `for listener in self.listeners: listener(arg)',
\* as the calls made, in order
FwdBucket_calls(ls, arg) == [i \in DOMAIN ls |-> <<ls[i], arg>>]

\* FwdBucket.register_callback(fn)
RegisterListener ==
    \E fn \in Listeners :
        /\ Len(listeners) < MaxRegistered
        /\ listeners' = Append(listeners, fn)
        /\ UNCHANGED <<netvars, dynvars, limit, fields, seen, excl, heard,
                       evald, aggvars, observed, ops, lastop, returned, ghost>>

\* FwdBucket.eval(pkt)
FwdBucketEval ==
    \E pkt \in BucketPackets :
        /\ Len(evald) < MaxEvals
        /\ lastop' = Started("FwdBucket.eval", <<Obj("fwd_bucket"), pkt>>)
        /\ evald' = Append(evald, [pkt |-> pkt, registered |-> listeners,
                                   called |-> listeners])
        /\ heard' = heard \o FwdBucket_calls(listeners, pkt)
        /\ result' = Ok(EmptyBag)
        /\ verdict' = <<>>
        /\ UNCHANGED <<netvars, dynvars, limit, fields, seen, excl, listeners,
                       aggvars, observed, ops, ghost>>


(***************************************************************************)
(* A counts bucket, counts(interval), the runtime holds; its reporting     *)
(* thread and the threads that evaluate packets on it                      *)
(***************************************************************************)
\* the threads of the runtime that evaluate packets
EvalThreads == {"e1", "e2"}

\* counts.aggregator(aggregate, pkt)
counts_aggregator(agg, pkt) == agg + 1

\* the evaluations in flight
InFlight == {t \in EvalThreads : loaded[t] /= Nothing}

\* update_aggregate, first half: the thread reads self.aggregate, the
\* argument of self.aggregator(self.aggregate, pkt)
CountsLoad ==
    \E t \in EvalThreads :
        /\ loaded[t] = Nothing
        /\ completed + Cardinality(InFlight) < MaxCounted
        /\ loaded' = [loaded EXCEPT ![t] = Some(aggregate)]
        /\ UNCHANGED <<netvars, dynvars, limit, fields, seen, excl, listeners,
                       heard, evald, aggregate, completed, reporter, held,
                       observed, ops, lastop, returned, ghost>>

\* update_aggregate, second half, and the return of AggregateFwdBucket.eval:
\* the thread stores what the aggregator returns and returns Counter()
CountsStore ==
    \E t \in EvalThreads, pkt \in BucketPackets :
        /\ loaded[t] /= Nothing
        /\ aggregate' = counts_aggregator(loaded[t][1], pkt)
        /\ held' = held \cup {aggregate'}
        /\ loaded' = [loaded EXCEPT ![t] = Nothing]
        /\ completed' = completed + 1
        /\ lastop' = Started("counts.eval", t)
        /\ result' = Ok(EmptyBag)
        /\ verdict' = <<>>
        /\ UNCHANGED <<netvars, dynvars, limit, fields, seen, excl, listeners,
                       heard, evald, reporter, observed, ops, ghost>>

\* AggregateFwdBucket.__init__ starts the thread before FwdBucket.__init__
\* creates self.listeners: a first iteration of report_count that runs in
\* between ends the thread with an AttributeError
ReportBeforeInit ==
    /\ reporter.state = "asleep"
    /\ reporter.wakes = 0
    /\ listeners = <<>>
    /\ completed = 0
    /\ InFlight = {}
    /\ reporter' = [reporter EXCEPT !.state = "dead"]
    /\ UNCHANGED <<netvars, dynvars, limit, fields, seen, excl, listeners,
                   heard, evald, aggregate, loaded, completed, held,
                   observed, ops, lastop, returned, ghost>>

\* a report_count that starts the count again at every report
ReportWake_Resets ==
    /\ reporter.state = "asleep"
    /\ reporter.wakes < MaxReports
    /\ reporter' = [state |-> "reporting", value |-> aggregate, next |-> 1,
                    wakes |-> reporter.wakes + 1]
    /\ aggregate' = 0
    /\ UNCHANGED <<netvars, dynvars, limit, fields, seen, excl, listeners,
                   heard, evald, loaded, completed, held,
                   observed, ops, lastop, returned, ghost>>

\* report_count: the thread wakes up and reads self.aggregate, the
\* argument of FwdBucket.eval(self, self.aggregate)
ReportWake ==
    /\ reporter.state = "asleep"
    /\ reporter.wakes < MaxReports
    /\ reporter' = [state |-> "reporting", value |-> aggregate, next |-> 1,
                    wakes |-> reporter.wakes + 1]
    /\ UNCHANGED <<netvars, dynvars, limit, fields, seen, excl, listeners,
                   heard, evald, aggregate, loaded, completed, held,
                   observed, ops, lastop, returned, ghost>>

\* FwdBucket.eval in the reporting thread: the next listener is called
ReportDeliver ==
    /\ reporter.state = "reporting"
    /\ reporter.next <= Len(listeners)
    /\ heard' = Append(heard, FwdBucket_calls(listeners, reporter.value)[reporter.next])
    /\ reporter' = [reporter EXCEPT !.next = @ + 1]
    /\ UNCHANGED <<netvars, dynvars, limit, fields, seen, excl, listeners,
                   evald, aggregate, loaded, completed, held,
                   observed, ops, lastop, returned, ghost>>

\* FwdBucket.eval has called every listener: time.sleep(self.interval)
ReportSleep ==
    /\ reporter.state = "reporting"
    /\ reporter.next > Len(listeners)
    /\ reporter' = [reporter EXCEPT !.state = "asleep"]
    /\ UNCHANGED <<netvars, dynvars, limit, fields, seen, excl, listeners,
                   heard, evald, aggregate, loaded, completed, held,
                   observed, ops, lastop, returned, ghost>>


\* the state after the objects are built, the bucket by packets(l, fs)
Constructed(l, fs) ==
    /\ netw = [n \in NodeIds |-> None]
    /\ egresses = [n \in TopoIds |-> Nothing]
    /\ mst = [n \in FloodIds |-> Nothing]
    /\ policy = [n \in Dynamic |-> Obj("drop")]
    /\ stack = <<>>
    /\ raised = FALSE
    /\ pfncalls = <<>>
    /\ ngen = 0
    /\ limit = l
    /\ fields = fs
    /\ seen = EmptyBag
    /\ excl = <<>>
    /\ listeners = <<>>
    /\ heard = <<>>
    /\ evald = <<>>
    /\ aggregate = 0
    /\ loaded = [t \in EvalThreads |-> Nothing]
    /\ completed = 0
    /\ reporter = [state |-> "asleep", value |-> 0, next |-> 1, wakes |-> 0]
    /\ held = {0}
    /\ observed = <<>>
    /\ ops = 0
    /\ sent = <<>>
    /\ entered = {}
    /\ recomputed = [n \in TopoIds |-> 0]
    /\ lastop = [op |-> "init", arg |-> None, netw0 |-> netw,
                 recomputed0 |-> recomputed, installs |-> 0]
    /\ result = <<>>
    /\ verdict = <<>>

\* the bucket is built by packets()
Init == Constructed(Nothing, <<>>)

\* the bucket is built by packets(limit, fields)
InitPackets == \E l \in Limits, fs \in FieldLists : Constructed(l, fs)

Next ==
    \/ SetNetwork
    \/ Install
    \/ ForwardToChild
    \/ Return

Spec == Init /\ [][Next]_vars

NextEval ==
    \/ SetNetworkTop
    \/ ForwardToChild
    \/ Return
    \/ EvalPredicate
    \/ EvalPolicy

\* the runtime sets the network of a composite policy and evaluates
\* packets on its parts
SpecEval == Init /\ [][NextEval]_vars

NextSequential == EvalSequential

\* the runtime evaluates packets on sequential compositions it builds
SpecSequential == Init /\ [][NextSequential]_vars

NextPackets ==
    \/ PacketsSetNetwork
    \/ RegisterCallback
    \/ PacketsEval
    \/ ForwardToChild
    \/ Return

\* the runtime sets the network of a packets bucket, registers callbacks
\* with it and hands it packets
SpecPackets == InitPackets /\ [][NextPackets]_vars

\* the bucket is built by packets(), packets(0) or packets(1, ['srcip'])
InitTrack ==
    \E a \in {<<Nothing, <<>>>>, <<Some(0), <<>>>>, <<Some(1), <<"srcip">>>>} :
        Constructed(a[1], a[2])

NextTrack ==
    \/ SetNetworkUnused
    \/ ForwardToChild
    \/ Return
    \/ TrackPredicate
    \/ TrackPolicy
    \/ RegisterCallback
    \/ PacketsTrackEval

\* the runtime sets the network of a composite policy, calls track_eval
\* on its parts, then registers callbacks with its packets bucket and
\* calls track_eval on the bucket
SpecTrack == InitTrack /\ [][NextTrack]_vars

NextPatterns ==
    \/ ComparePatterns
    \/ CompareMatches

\* the application compares patterns and match objects it has built
SpecPatterns == Init /\ [][NextPatterns]_vars

NextConcurrent ==
    \/ SetNetworkRes
    \/ ForwardToChild
    \/ Return
    \/ ConcurrentEval

\* one thread of the runtime sets the network of res while another
\* evaluates packets on it
SpecConcurrent == Init /\ [][NextConcurrent]_vars

NextForward ==
    \/ RegisterListener
    \/ FwdBucketEval

\* the runtime registers callbacks with a forwarding bucket and hands it
\* packets
SpecForward == Init /\ [][NextForward]_vars

NextCounts ==
    \/ RegisterListener
    \/ CountsLoad
    \/ CountsStore
    \/ ReportBeforeInit
    \/ ReportWake
    \/ ReportDeliver
    \/ ReportSleep

\* callbacks are registered with a counts bucket while threads of the
\* runtime evaluate packets on it and its own thread reports
SpecCounts == Init /\ [][NextCounts]_vars

\* a call that has started runs on: the interpreter executes the next
\* statement of the innermost frame
FairSpec == Spec /\ WF_vars(ForwardToChild) /\ WF_vars(Return)

(***************************************************************************)
(* Properties of set_network                                               *)
(***************************************************************************)
Last(q) == q[Len(q)]

\* the objects an object holds as attributes: those set_network is
\* forwarded to, and the FwdBucket of the PredicateWrappedFwdBucket
Owns(n) == IF n = Obj("pwfb") THEN <<Obj("fwd_bucket")>> ELSE Kids(n)

RECURSIVE ReachableFrom(_)
ReachableFrom(S) ==
    LET T == S \cup UNION {{Owns(n)[i] : i \in 1..Len(Owns(n))} : n \in S}
    IN IF T = S THEN S ELSE ReachableFrom(T)

\* the objects n.set_network called during the operation, in order
CalledBy(n) ==
    LET q == SelectSeq(sent, LAMBDA e : e.from = n)
    IN [i \in 1..Len(q) |-> q[i].to]

\* a top-level set_network has returned normally
Returned == stack = <<>> /\ ~raised /\ lastop.op = "set_network"

\* this step is a call of set_network
DeliveryStep == ops' /= ops \/ sent' /= sent

\* C2: a set_network(s) call with s different from what the object stores
\* leaves it storing s and has called set_network(s) once on each child
\* it holds; after root.set_network(s) every object reachable stores s.
C2_PropagationReachesEveryObject ==
    Returned =>
        /\ \A k \in 1..Len(sent) :
              sent[k].had /= sent[k].s =>
                 /\ netw[sent[k].to] = sent[k].s
                 /\ CalledBy(sent[k].to) = Owns(sent[k].to)
        /\ lastop.netw0[Obj("m")] /= lastop.arg =>
              \A n \in ReachableFrom({Obj("m")}) : netw[n] = lastop.arg

\* C3: set_network(s) on an object that stores s changes nothing,
\* recomputes nothing and calls no child; a root.set_network(s) recomputes
\* the caches of an object reached through several parents once.
C3_IdempotentStep ==
    /\ (DeliveryStep /\ Last(sent').had = Last(sent').s) =>
          /\ netw' = netw /\ egresses' = egresses /\ mst' = mst
          /\ recomputed' = recomputed
          /\ pfncalls' = pfncalls /\ policy'[Obj("nd")] = policy[Obj("nd")]
          /\ (stack' = <<>> \/ Head(stack').n /= Last(sent').to
                            \/ Head(stack').i > 1)
    /\ (stack' = <<>> /\ ~raised' /\ lastop'.op = "set_network") =>
          \A n \in TopoIds :
              recomputed'[n] - lastop'.recomputed0[n]
                 = (IF n \in entered' /\ lastop'.arg /= None THEN 1 ELSE 0)

C3_SetNetworkIdempotent == [][C3_IdempotentStep]_vars

C3_Witness_SharedFloodRecomputedOnce ==
    /\ Returned
    /\ lastop.arg \in Nets
    /\ \E j, k \in 1..Len(sent) :
          /\ j < k
          /\ sent[j].to = Obj("flood") /\ sent[j].had /= sent[j].s
          /\ sent[k].to = Obj("flood") /\ sent[k].had = sent[k].s
          /\ sent[j].from /= sent[k].from
    /\ recomputed[Obj("flood")] = lastop.recomputed0[Obj("flood")] + 1

\* C4: set_network on a policy whose sub-tree holds recurse(that policy)
\* ends: an object called again within the operation already stores the
\* network and returns, so no object is called more often than it is held.
C4_RecursivePropagationTerminates ==
    /\ [](\A j \in 1..(Len(sent) - 1) :
             sent[j].to = Last(sent).to => Last(sent).had = Last(sent).s)
    /\ ((stack /= <<>>) ~> (stack = <<>>))

C4_Witness_CycleWalked ==
    /\ Returned
    /\ policy[Obj("m")] = Obj("top")
    /\ lastop.arg /= lastop.netw0[Obj("m")]
    /\ Obj("m") \in ReachableFrom({Obj("top")})
    /\ \E k \in 1..Len(sent) :
          sent[k].to = Obj("rec") /\ sent[k].s = netw[Obj("m")]

\* C7: m.policy = value calls value.set_network(m.network): whenever no
\* call is running the installed policy stores the network m stores;
\* m.set_network calls the installed policy, which is drop until the
\* first assignment.
C7_InstalledPolicyHasNetwork ==
    /\ stack = <<>> => netw[policy[Obj("m")]] = netw[Obj("m")]
    /\ lastop.installs = 0 => policy[Obj("m")] = Obj("drop")
    /\ \A k \in 1..Len(sent) :
          sent[k].from = Obj("m") =>
             sent[k].to = policy[Obj("m")] /\ sent[k].s = netw[Obj("m")]

C7_Witness_StalePolicyInstalled ==
    /\ stack = <<>>
    /\ lastop.op = "install"
    /\ lastop.arg \in Nets
    /\ lastop.netw0[policy[Obj("m")]] /= lastop.arg
    /\ netw[policy[Obj("m")]] = lastop.arg

\* C8: the delegate of the NetworkDerivedPolicy is drop until a network
\* is known; a set_network(s) with s new and not None calls
\* policy_from_network(s) once and installs the result; a set_network
\* with the stored network calls nothing and keeps the delegate.
C8_NetworkDerivedStep ==
    LET nd == Obj("nd")
        called == DeliveryStep /\ Last(sent').to = nd
        same == Last(sent').had = Last(sent').s
        running == stack' /= <<>> /\ Head(stack').n = nd /\ Head(stack').i = 1
        returns == /\ stack /= <<>> /\ Head(stack).n = nd
                   /\ stack' = Tail(stack) /\ ~raised'
    IN /\ (called /\ same) => ~running
       /\ (called /\ ~same) => running
       /\ returns =>
             IF Head(stack).s /= None
             THEN /\ pfncalls' = Append(pfncalls, Head(stack).s)
                  /\ policy'[nd] = gen(Len(pfncalls'))
             ELSE /\ pfncalls' = pfncalls
                  /\ policy'[nd] = Obj("drop")
       /\ ~returns => pfncalls' = pfncalls /\ policy'[nd] = policy[nd]
       /\ (pfncalls' = <<>> => policy'[nd] = Obj("drop"))

C8_NetworkDerivedPolicy == [][C8_NetworkDerivedStep]_vars

C8_Witness_SameNetworkAfterGeneration ==
    /\ pfncalls /= <<>>
    /\ policy[Obj("nd")] = gen(Len(pfncalls))
    /\ \E k \in 1..Len(sent) :
          /\ sent[k].to = Obj("nd")
          /\ sent[k].had = sent[k].s
          /\ sent[k].s = Last(pfncalls)

(***************************************************************************)
(* Properties of eval                                                      *)
(***************************************************************************)
\* the sum of f[x] over the x in S
RECURSIVE SumOver(_, _)
SumOver(S, f) ==
    IF S = {} THEN 0
    ELSE LET x == CHOOSE y \in S : TRUE IN f[x] + SumOver(S \ {x}, f)

\* the one result of a policy whose evaluation walks no dict
TheResult(n, pkt) == CHOOSE r \in PolEval(n, pkt) : TRUE

\* the multiset bind: every y as often as the packets x of lc yield it,
\* each counted lc[x] times
Bind(lc, n) ==
    LET rc(x) == TheResult(n, x).val
        weight(y) == SumOver(BagToSet(lc),
                             [x \in BagToSet(lc) |-> lc[x] * CopiesIn(y, rc(x))])
    IN [y \in UNION {BagToSet(rc(x)) : x \in BagToSet(lc)} |-> weight(y)]

RECURSIVE Kleisli(_, _)
Kleisli(policies, lc) ==
    IF policies = <<>> THEN lc
    ELSE Kleisli(Tail(policies), Bind(lc, Head(policies)))

\* C1: sequential.eval is Kleisli composition over multisets: an output
\* packet has the sum, over the intermediate packets, of their
\* multiplicity times its multiplicity in the next policy's result.
C1_SequentialIsKleisli ==
    lastop.op = "sequential.eval" =>
        result = Ok(Kleisli(lastop.arg[1], Counter1(lastop.arg[2])))

\* C9: before any set_network call flood.eval returns the empty Counter
\* and ingress_network.eval and egress_network.eval return False, for
\* every packet, without raising.
C9_NeutralWithoutNetwork ==
    (ops = 0 /\ lastop.op \in {"Predicate.eval", "Policy.eval"}) =>
        /\ lastop.arg[1] \in {Obj("ing"), Obj("egr")} =>
              verdict.exc = "" /\ verdict.val = FALSE
        /\ lastop.arg[1] = Obj("flood") =>
              result.exc = "" /\ result.val = EmptyBag

\* C10: with a network set, ingress_network.eval of a packet without
\* inport and egress_network.eval of a packet without outport return
\* False without raising; with the field, the result is whether
\* (switch, port) is a boundary location of the network.
C10_AbsentLocationIsFalse ==
    LET n == lastop.arg[1]
        pkt == lastop.arg[2]
        field == IF n = Obj("ing") THEN "inport" ELSE "outport"
    IN (/\ lastop.op = "Predicate.eval"
        /\ n \in {Obj("ing"), Obj("egr")}
        /\ netw[n] \in Nets) =>
           /\ verdict.exc = ""
           /\ verdict.val =
                 (/\ field \in DOMAIN pkt
                  /\ <<Current(pkt, "switch"), Current(pkt, field)>>
                        \in egress_locations(netw[n]))

(***************************************************************************)
(* Properties of the packets bucket                                        *)
(***************************************************************************)
\* the packet has every field the bucket groups by
Grouped(pkt) == GroupFields(pkt) \subseteq DOMAIN pkt

\* the group combination of a packet: its values of the group fields
Combination(pkt) == [f \in GroupFields(pkt) |-> Current(pkt, f)]

\* how many of the first i packets handed to the bucket have the
\* combination of the i-th
Rank(i) ==
    Cardinality({j \in 1..i : /\ Grouped(evald[j].pkt)
                              /\ Combination(evald[j].pkt)
                                    = Combination(evald[i].pkt)})

PredicateEvaluated(n) == lastop.op = "Predicate.eval" /\ lastop.arg[1] = n

\* the last operation was n.eval(pkt), n a policy
PolicyEvaluated(n) == lastop.op = "Policy.eval" /\ lastop.arg[1] = n

\* C15: difference(a, b).eval(packet) is true iff a.eval(packet) is true
\* and b.eval(packet) is false, whenever a and b evaluate on the packet.
C15_DifferenceIsAButNotB ==
    \A d \in DOMAIN DifferenceArgs :
        LET a == PredEval(DifferenceArgs[d][1], lastop.arg[2])
            b == PredEval(DifferenceArgs[d][2], lastop.arg[2])
        IN (PredicateEvaluated(d) /\ a.exc = "" /\ b.exc = "") =>
               verdict = Ok(a.val /\ ~b.val)

\* a difference of two matches was true on a packet, and so not `a and
\* not a'
C15_Witness_DifferenceTrue ==
    /\ PredicateEvaluated(Obj("diff2"))
    /\ verdict = Ok(TRUE)
    /\ PredEval(Obj("mF1"), lastop.arg[2]).val

\* the parallel compositions the runtime evaluates
Parallels == {n \in EvalPolicies : kind(n) = "parallel"}

\* how often the children of the parallel n yield y on pkt, in all
Yielded(n, pkt, y) ==
    SumOver(DOMAIN Kids(n),
            [i \in DOMAIN Kids(n) |-> CopiesIn(y, TheResult(Kids(n)[i], pkt).val)])

\* C16: parallel.eval evaluates every child on the input packet and
\* returns the multiset sum of the children's results; without children
\* it returns the empty multiset.
C16_ParallelIsMultisetSum ==
    \A n \in Parallels :
        LET pkt == lastop.arg[2]
            outs == UNION {BagToSet(TheResult(Kids(n)[i], pkt).val) : i \in DOMAIN Kids(n)}
        IN (/\ PolicyEvaluated(n)
            /\ \A i \in DOMAIN Kids(n) : TheResult(Kids(n)[i], pkt).exc = "") =>
               /\ result.exc = ""
               /\ BagToSet(result.val) = outs
               /\ \A y \in outs : CopiesIn(y, result.val) = Yielded(n, pkt, y)

\* two branches that each yield the packet once yielded it twice
C16_Witness_TwoBranchesSameOutput ==
    /\ PolicyEvaluated(Obj("twice"))
    /\ result = Ok(SetToBag({lastop.arg[2]}) (+) SetToBag({lastop.arg[2]}))

\* the ports flood sends a packet that came in on inport at switch out
\* of, in the network net: the egress ports on the switch and the ports
\* of the spanning tree's edges from the switch, without the inport
FloodPorts(net, switch, inport) ==
    ({l[2] : l \in {e \in egress_locations(net) : e[1] = switch}}
     \cup {d[3] : d \in {e \in minimum_spanning_tree(net).edges : e[1] = switch}})
    \ {inport}

\* C17: with a network set, flood.eval of a packet with switch and inport
\* is empty if the switch is not in the spanning tree, and otherwise holds
\* exactly one packet, once, per egress port and tree port of the switch
\* other than the inport, with that port as current outport.
C17_FloodPortsExcludeInport ==
    LET n == Obj("flood")
        pkt == lastop.arg[2]
        switch == Current(pkt, "switch")
        ports == FloodPorts(netw[n], switch, Current(pkt, "inport"))
        outs == BagToSet(result.val)
    IN (/\ PolicyEvaluated(n)
        /\ netw[n] \in Nets
        /\ {"switch", "inport"} \subseteq DOMAIN pkt) =>
           /\ result.exc = ""
           /\ IF switch \notin minimum_spanning_tree(netw[n]).nodes
              THEN outs = {}
              ELSE /\ \A y \in outs : /\ CopiesIn(y, result.val) = 1
                                      /\ "outport" \in DOMAIN y
                                      /\ Current(y, "outport") \in ports
                   /\ \A p \in ports :
                         Cardinality({y \in outs : Current(y, "outport") = p}) = 1

\* a packet that came in on port 2 of a switch with tree neighbours on
\* ports 2 and 3 and no egress port was flooded to port 3 only
C17_Witness_FloodedAwayFromInport ==
    /\ PolicyEvaluated(Obj("flood"))
    /\ netw[Obj("flood")] = "N1"
    /\ lastop.arg[2] = [switch |-> <<1>>, inport |-> <<2>>, srcip |-> <<1>>]
    /\ result = Ok(SetToBag({[switch |-> <<1>>, inport |-> <<2>>,
                               srcip |-> <<1>>, outport |-> <<3>>]}))

\* the current outport of the packet is the sentinel -1
Sentinel(pkt) == "outport" \in DOMAIN pkt /\ Current(pkt, "outport") = -1

\* C18: fwd(port).eval returns one packet, once, whose current outport
\* is port; the outport stack keeps its depth if the input's current
\* outport is the sentinel -1 and grows by one otherwise; the values
\* below the top and every other field are those of the input.
C18_FwdPushesOneOutport ==
    LET pkt == lastop.arg[2]
        port == Attr[Obj("fw_push")].outport
        below == IF Sentinel(pkt) THEN Tail(pkt.outport)
                 ELSE get_stack(pkt, "outport")
    IN PolicyEvaluated(Obj("fw")) =>
           /\ result.exc = ""
           /\ \E y \in BagToSet(result.val) :
                 /\ result.val = SetToBag({y})
                 /\ DOMAIN y = DOMAIN pkt \cup {"outport"}
                 /\ y.outport = <<port>> \o below
                 /\ \A f \in DOMAIN pkt \ {"outport"} : y[f] = pkt[f]

\* fwd replaced the sentinel on top of a stack of two outports
C18_Witness_SentinelReplaced ==
    /\ PolicyEvaluated(Obj("fw"))
    /\ Sentinel(lastop.arg[2])
    /\ Len(lastop.arg[2].outport) = 2
    /\ result.exc = ""

Moves == {n \in EvalPolicies : kind(n) = "move"}

\* the pairs of a move whose source field the packet has
Present(n, pkt) == {d \in DOMAIN Attr[n] : Attr[n][d] \in DOMAIN pkt}

\* C19: move yields one packet, once, without raising. For each pair
\* dst=src whose source the packet has, dst's stack is its old stack
\* under the old current value of src, and src's stack has lost its
\* top; every other field, the destination of a pair whose source is
\* absent included, is as it was. (The moves evaluated have no field
\* that is both a destination and a source.)
C19_MovePushesAndPops ==
    \A n \in Moves :
        LET pkt == lastop.arg[2]
            dsts == Present(n, pkt)
            srcs == {Attr[n][d] : d \in dsts}
        IN PolicyEvaluated(n) =>
               /\ result.exc = ""
               /\ \E y \in BagToSet(result.val) :
                     /\ result.val = SetToBag({y})
                     /\ \A d \in dsts :
                           y[d] = <<Current(pkt, Attr[n][d])>> \o get_stack(pkt, d)
                     /\ \A s \in srcs :
                           /\ get_stack(y, s) = Tail(pkt[s])
                           /\ Len(get_stack(y, s)) = Len(pkt[s]) - 1
                     /\ \A f \in (DOMAIN pkt \cup DOMAIN y) \ (dsts \cup srcs) :
                           get_stack(y, f) = get_stack(pkt, f)
                     /\ dsts = {} => y = pkt

\* a two-pair move applied the pair whose source was present and
\* skipped the other
C19_Witness_OnePairSkipped ==
    /\ PolicyEvaluated(Obj("mv2"))
    /\ Present(Obj("mv2"), lastop.arg[2]) = {"inport"}
    /\ result.exc = ""
    /\ \E y \in BagToSet(result.val) :
          /\ Current(y, "inport") = Current(lastop.arg[2], "srcip")
          /\ "vlan" \notin DOMAIN y

\* the if_ objects called without an f_branch
ElseOmitted == {Obj("if"), Obj("fw_if")}

Restricts == {n \in EvalPolicies : kind(n) \in {"restrict", "remove"}}

\* C20: where the predicate does not raise, if_(pred, then, else).eval
\* is then.eval on a packet pred holds for and else.eval on one it does
\* not hold for, {packet: 1} in the latter case when else was omitted;
\* restrict(p, pred).eval is p.eval where pred holds and empty elsewhere
\* and remove(p, pred).eval is p.eval where pred does not hold and empty
\* elsewhere.
C20_BranchFollowsPredicate ==
    LET pkt == lastop.arg[2] IN
    /\ \A n \in DOMAIN IfArgs :
          LET r == PredEval(IfArgs[n][1], pkt) IN
          (PolicyEvaluated(n) /\ r.exc = "") =>
              /\ r.val => result \in PolEval(IfArgs[n][2], pkt)
              /\ ~r.val => result \in PolEval(IfArgs[n][3], pkt)
              /\ (~r.val /\ n \in ElseOmitted) => result = Ok(SetToBag({pkt}))
    /\ \A n \in Restricts :
          LET r == PredEval(Kids(n)[2], pkt)
              yes == IF kind(n) = "restrict" THEN r.val ELSE ~r.val
          IN (PolicyEvaluated(n) /\ r.exc = "") =>
                 IF yes THEN result \in PolEval(Kids(n)[1], pkt)
                 ELSE result = Ok(EmptyBag)

\* an if_ with both branches took its else branch, which yields two packets
C20_Witness_ElseBranchTaken ==
    /\ PolicyEvaluated(Obj("ife"))
    /\ PredEval(Obj("mF1"), lastop.arg[2]) = Ok(FALSE)
    /\ result = TheResult(Obj("split"), lastop.arg[2])
    /\ result.exc = ""
    /\ Cardinality(BagToSet(result.val)) = 2

RECURSIVE Flatten(_)
\* the concatenation of a sequence of sequences
Flatten(ss) == IF ss = <<>> THEN <<>> ELSE Head(ss) \o Flatten(Tail(ss))

\* C14: FwdBucket.eval returns the empty multiset, and the calls the
\* listeners have received are, evaluation after evaluation, one call
\* with the packet per entry of the list of registrations at that time,
\* in registration order (so k calls for a function registered k times).
C14_EveryRegistrationCalledInOrder ==
    /\ lastop.op = "FwdBucket.eval" => result = Ok(EmptyBag)
    /\ heard = Flatten([e \in DOMAIN evald |->
                  [i \in DOMAIN evald[e].registered |->
                      <<evald[e].registered[i], evald[e].pkt>>]])

\* a packet was handed to a bucket with cb2 registered once and then cb1
\* twice
C14_Witness_RegisteredTwice ==
    /\ lastop.op = "FwdBucket.eval"
    /\ listeners = <<"cb2", "cb1", "cb1">>
    /\ Len(evald) = 1
    /\ Len(heard) = 3

\* C12: when no evaluation of the counts bucket is in flight, the
\* aggregate is the number of evaluations that have returned, and every
\* value a listener received is a value the aggregate has held.
C12_AggregateCountsEveryEval ==
    /\ InFlight = {} => aggregate = completed
    /\ \A i \in DOMAIN heard : heard[i][2] \in held

\* the last Len(listeners) calls the listeners received
LastCalls == SubSeq(heard, Len(heard) - Len(listeners) + 1, Len(heard))

\* C13: a step of the reporting thread leaves the aggregate as it is;
\* what a listener receives is the number the thread read from the
\* aggregate when it woke up, and when the thread goes back to sleep
\* every registered listener has received it; an evaluation that returns
\* has stored the aggregator's result, returns the empty multiset and
\* calls no listener.
C13_ReportReadsEvalWrites ==
    [][/\ reporter' /= reporter => aggregate' = aggregate
       /\ (reporter.state = "asleep" /\ reporter'.state = "reporting") =>
              reporter'.value = aggregate
       /\ heard' /= heard =>
              /\ reporter.state = "reporting"
              /\ \E fn \in Listeners : heard' = Append(heard, <<fn, reporter.value>>)
              /\ reporter.value \in Nat
       /\ (reporter.state = "reporting" /\ reporter'.state = "asleep") =>
              LastCalls = [i \in DOMAIN listeners |-> <<listeners[i], reporter.value>>]
       /\ completed' /= completed =>
              /\ \E t \in InFlight : aggregate' = loaded[t][1] + 1
              /\ result' = Ok(EmptyBag)
              /\ heard' = heard]_vars

\* two listeners have received the count 1 in a report made after an
\* evaluation
C13_Witness_CountReported ==
    /\ reporter.state = "asleep"
    /\ reporter.wakes >= 1
    /\ completed = 1
    /\ heard = <<<<"cb1", 1>>, <<"cb2", 1>>>>

\* flood.eval(pkt) with the caches flood derives from the network s
FloodUnder(s, pkt) ==
    LET switch == Current(pkt, "switch")
        out(p) == IF Sentinel(pkt) THEN modifymany(pkt, [outport |-> p])
                  ELSE pushmany(pkt, [outport |-> p])
    IN IF switch \in minimum_spanning_tree(s).nodes
       THEN Ok(SetToBag({out(p) : p \in FloodPorts(s, switch, Current(pkt, "inport"))}))
       ELSE Ok(EmptyBag)

\* n.eval(pkt), n in ConcurrentPolicies, when every object of res holds
\* the network s and the caches it derives from s; pkt has switch and
\* inport
Under(s, n, pkt) ==
    LET switch == Current(pkt, "switch")
        atEdge == \/ <<switch, Current(pkt, "inport")>> \in egress_locations(s)
                  \/ /\ "outport" \in DOMAIN pkt
                     /\ <<switch, Current(pkt, "outport")>> \in egress_locations(s)
    IN IF n = Obj("flood") \/ atEdge THEN FloodUnder(s, pkt) ELSE Ok(EmptyBag)

\* C11: an evaluation that runs while set_network(new) is in progress on
\* a tree that held the network old returns what it returns with old
\* everywhere or what it returns with new everywhere.
C11_EvalSeesOneTopology ==
    (/\ observed /= <<>>
     /\ observed.old \in Nets
     /\ {"switch", "inport"} \subseteq DOMAIN observed.pkt) =>
        result \in {Under(observed.old, observed.n, observed.pkt),
                    Under(observed.new, observed.n, observed.pkt)}

\* two patterns have the same value and the same mask length
SamePattern(p, q) == p.pattern = q.pattern /\ p.masklen = q.masklen

\* two match maps have the same fields and, field by field, both None or
\* the same pattern
SameMap(m1, m2) ==
    /\ DOMAIN m1 = DOMAIN m2
    /\ \A f \in DOMAIN m1 :
          \/ m1[f] = Nothing /\ m2[f] = Nothing
          \/ m1[f] /= Nothing /\ m2[f] /= Nothing /\ SamePattern(m1[f][1], m2[f][1])

\* C21: two patterns are equal iff they have the same value and the same
\* masklen, equal patterns have equal hashes, and two match objects are
\* equal iff their maps are equal in this sense.
C21_EqualityIsStructural ==
    /\ lastop.op = "pattern.__eq__" =>
          LET p == lastop.arg[1]
              q == lastop.arg[2]
          IN /\ verdict = Ok(SamePattern(p, q))
             /\ verdict.val => Pattern_hash(p) = Pattern_hash(q)
    /\ lastop.op = "match.__eq__" =>
          verdict = Ok(SameMap(lastop.arg[1], lastop.arg[2]))

\* what packets.eval(pkt) does in the current state: the calls the
\* listeners receive, self.seen afterwards, whether the exclusion
\* predicate is refined, and what is returned
PacketsEvalGives(pkt) ==
    LET open == PredEval(ExclusionPredicate, pkt).val
        r == pwfb_eval(pkt)
        called == IF open THEN r.called ELSE <<>>
    IN [heard |-> heard \o [i \in 1..Len(called) |-> <<called[i], pkt>>],
        seen |-> IF open THEN r.seen ELSE seen,
        refines |-> open /\ r.exc = "" /\ ~r.val,
        result |-> IF open /\ r.exc /= "" THEN Raise(r.exc) ELSE Ok(EmptyBag)]

\* C22: track_eval of a predicate returns (or raises) what eval returns,
\* track_eval of a policy can return exactly the Counters eval can
\* return, and packets.track_eval calls the listeners, counts the packet,
\* refines the exclusion predicate (with the network of the bucket set on
\* the new predicate) and returns as packets.eval does.
C22_TrackEvalAgreesWithEval ==
    [][/\ (lastop' /= lastop /\ lastop'.op = "Predicate.track_eval") =>
              [exc |-> verdict'.exc, val |-> verdict'.val]
                  = PredEval(lastop'.arg[1], lastop'.arg[2])
       /\ (lastop' /= lastop /\ lastop'.op = "Policy.track_eval") =>
              /\ result' \in PolEval(lastop'.arg[1], lastop'.arg[2])
              /\ TrackPol(lastop'.arg[1], lastop'.arg[2])
                     = PolEval(lastop'.arg[1], lastop'.arg[2])
       /\ evald' /= evald =>
              LET pkt == Last(evald').pkt
                  e == PacketsEvalGives(pkt)
              IN /\ heard' = e.heard
                 /\ seen' = e.seen
                 /\ result' = e.result
                 /\ excl' = IF e.refines THEN Append(excl, ExclusionVal(pkt)) ELSE excl
                 /\ IF e.refines
                    THEN netw'[x_int(Len(excl'))] = netw[Obj("pk")]
                    ELSE netw' = netw]_vars

\* packets.track_eval has refined the exclusion predicate of a bucket
\* whose listener was called for an earlier packet
C22_Witness_TrackedRefinement ==
    /\ lastop.op = "packets.track_eval"
    /\ stack = <<>>
    /\ Len(excl) = 1
    /\ Len(heard) = 1
    /\ Len(evald) = 2

RECURSIVE Visits(_)
\* the objects of a returned list and of the lists inside it, as a tree
Visits(tr) == [node |-> tr.node, kids |-> [i \in DOMAIN tr.kids |-> Visits(tr.kids[i])]]

\* the children predicate.eval visits, in order: all of them up to and
\* including the first that is false (intersect) or true (union)
Visited(n, pkt) ==
    LET kids == Kids(n)
        stopsAt(i) == PredEval(kids[i], pkt).val = (kind(n) = "union")
        stops == {i \in DOMAIN kids : stopsAt(i)}
        upto == IF stops = {} THEN Len(kids)
                ELSE CHOOSE i \in stops : \A j \in stops : i <= j
    IN IF kind(n) \in {"union", "intersect"} THEN SubSeq(kids, 1, upto)
       ELSE kids

RECURSIVE VisitTree(_, _)
\* the predicate and, below it, the children visited with theirs
VisitTree(n, pkt) ==
    [node |-> n,
     kids |-> [i \in DOMAIN Visited(n, pkt) |-> VisitTree(Visited(n, pkt)[i], pkt)]]

\* C23: the list a predicate's track_eval returns holds the predicate
\* and the lists of the children it visited, in order: for intersect the
\* children up to and including the first false one, for union those up
\* to and including the first true one, for negate and difference the
\* child.
C23_TraceIsVisitedChildren ==
    (lastop.op = "Predicate.track_eval" /\ verdict.exc = "") =>
        Visits(verdict.trace) = VisitTree(lastop.arg[1], lastop.arg[2])

Junctions == {n \in EvalPredicates : kind(n) \in {"union", "intersect"}}

\* the results of the children of n on the packet
ChildResults(n, pkt) == [i \in DOMAIN Kids(n) |-> PredEval(Kids(n)[i], pkt)]

\* C24: where no child raises, a union is true iff some child is true
\* and an intersect is true iff every child is true; so a union of no
\* predicates is false and an intersect of no predicates is true.
C24_UnionAnyIntersectAll ==
    \A n \in Junctions :
        LET rs == ChildResults(n, lastop.arg[2])
        IN (PredicateEvaluated(n) /\ \A i \in DOMAIN rs : rs[i].exc = "") =>
               verdict = Ok(IF kind(n) = "union"
                            THEN \E i \in DOMAIN rs : rs[i].val
                            ELSE \A i \in DOMAIN rs : rs[i].val)

\* an intersect of no predicates was evaluated and is true
C24_Witness_EmptyIntersectTrue ==
    /\ PredicateEvaluated(Obj("int0"))
    /\ Kids(Obj("int0")) = <<>>
    /\ verdict = Ok(TRUE)

\* C25: when set_network(s), s a network the NetworkDerivedPolicy did not
\* store, has returned, the policy generated for s stores s.
C25_FreshDelegateStoresNetwork ==
    LET nd == Obj("nd") IN
    (/\ Returned
     /\ lastop.arg \in Nets
     /\ lastop.netw0[nd] /= lastop.arg
     /\ netw[nd] = lastop.arg) =>
        netw[policy[nd]] = lastop.arg

\* C26: whenever no call is in progress, the exclusion predicate of the
\* packets bucket and every predicate under it store the network the
\* bucket stores.
C26_ExclusionPredicateInSync ==
    stack = <<>> =>
        \A x \in ReachableFrom({ExclusionPredicate}) : netw[x] = netw[Obj("pk")]

\* a bucket that stores a network has just refined its exclusion
\* predicate for the second time
C26_Witness_RefinedWithNetwork ==
    /\ stack = <<>>
    /\ lastop.op = "packets.eval"
    /\ Len(excl) = 2
    /\ Len(evald) = 2
    /\ netw[Obj("pk")] \in Nets

\* C27: the reporting thread of the counts bucket never fails: its report
\* step only runs once FwdBucket.__init__ has created the listener list.
C27_ReporterNeverFails ==
    reporter.state /= "dead"
====
